---- MODULE Spec2Model ----
(***************************************************************************)
(* A model of the slab allocator of src/src/lib.rs and src/src/section.rs: *)
(* SlabAllocator (new, allocate, deallocate) over an ordered array of      *)
(* Sections, each an atomic bitmask of 1, 8, 16, 32 or 64 bits.            *)
(*                                                                         *)
(* A bitmask is modelled as the set of the indices of its one bits, so     *)
(* that a 64 bit mask needs no 64 bit integer; the bit operations of the   *)
(* code (!x, x + 1, x & y, x | y, 1 << i, trailing_zeros, count_zeros) are *)
(* operators on such sets.  Addresses are byte offsets from the start of   *)
(* the backing buffer.  usize is UsizeBits wide, narrower than on any real *)
(* target, so that the products and sums of new and allocate can overflow  *)
(* within small numbers: HugeSize stands for a slot size of 2^61 bytes on  *)
(* a 64 bit target.                                                        *)
(*                                                                         *)
(* Three specifications share the operators of the code: Spec (one caller, *)
(* any arguments, on an allocator or on one section), ClientSpec (one      *)
(* caller that gives back only what it was given) and ConcSpec (several    *)
(* callers whose atomic operations interleave).                            *)
(***************************************************************************)
EXTENDS Integers, Sequences, FiniteSets, TLC

VARIABLES
    blocks,           \* SlabAllocator::blocks, the sections with their bitmasks
    buffer,           \* SlabAllocator::buffer, one view [start, len] per section
    buf,              \* the length of the buffer not yet handed to new
    state,            \* "start", "ready", "err", "panic", or "section"
    ret,              \* the last call: its operation, its inputs and its result
                      \* (undo: it gave back what the call before it returned)
    prev,             \* blocks as they were before the last call
    streak,           \* on a section created with a zero bitmask and never
                      \* released: the number of allocate calls so far; else -1
                      \* (in ClientSpec: of allocate calls of one layout since
                      \* new, with no deallocate)
    live,             \* the ranges a single caller holds: returned by allocate
                      \* and not yet given to deallocate
    threads           \* concurrent callers: each one's position in its call

vars == <<blocks, buffer, buf, state, ret, prev, streak, live, threads>>

----------------------------------------------------------------------------
(* Bounds of the model *)

\* the width of usize, in bits
UsizeBits == 11
\* release indices tried at the low end of a bitmask: 0 .. MaxProbe - 1
MaxProbe == 2
\* concurrent callers
NumThreads == 2
\* calls the concurrent callers make, all together
MaxCalls == 5

UsizeMod == 2 ^ UsizeBits

Variants == {"Bool", "U8", "U16", "U32", "U64"}

Min(S) == CHOOSE x \in S : \A y \in S : x <= y

----------------------------------------------------------------------------
(* section.rs: bit operations on a mask of W bits *)

\* !x
Not(W, x) == (0 .. (W - 1)) \ x

RECURSIVE Carry(_, _, _)
Carry(W, x, i) ==
    IF i >= W THEN x
    ELSE IF i \in x THEN Carry(W, x \ {i}, i + 1)
    ELSE x \cup {i}

\* x + 1: a ripple carry from bit 0
AddOne(W, x) == Carry(W, x, 0)

\* x.trailing_zeros()
trailing_zeros(W, x) == IF x = {} THEN W ELSE Min(x)

\* x.count_zeros()
count_zeros(W, x) == W - Cardinality(x)

----------------------------------------------------------------------------
(* section.rs: Section *)

Section_new(size, variant, bits) ==
    [size |-> size, allocated |-> [variant |-> variant, bits |-> bits]]

total_slots(section) ==
    CASE section.allocated.variant = "Bool" -> 1
      [] section.allocated.variant = "U8" -> 8
      [] section.allocated.variant = "U16" -> 16
      [] section.allocated.variant = "U32" -> 32
      [] section.allocated.variant = "U64" -> 64

free_slots(section) ==
    IF section.allocated.variant = "Bool"
    THEN (IF section.allocated.bits = {} THEN 1 ELSE 0)
    ELSE count_zeros(total_slots(section), section.allocated.bits)

\* lowest_zero without the mask by load + 1: every zero bit of load
lowest_zero_all(W, load) == Not(W, load)

\* the lowest zero bit of load: !load & (load + 1)
lowest_zero(W, load) == Not(W, load) \cap AddOne(W, load)

\* compare_exchange as a plain store: the current value is not compared
compare_exchange_blind(bits, current, new) == [res |-> "Ok", bits |-> new]

\* AtomicBool::compare_exchange(current, new, ..), one atomic step: the flag
\* becomes new if it is current, and is left alone otherwise
compare_exchange(bits, current, new) ==
    IF bits = current THEN [res |-> "Ok", bits |-> new]
    ELSE [res |-> "Err", bits |-> bits]

\* allocate_store as a compare and swap: it fails when the mask is no longer
\* the one that was loaded
allocate_store_cas(W, bits, load) ==
    IF bits = load
    THEN [res |-> "Ok", bits |-> load \cup (Not(W, load) \cap AddOne(W, load)),
          value |-> trailing_zeros(W, Not(W, load) \cap AddOne(W, load))]
    ELSE [res |-> "Err", bits |-> bits, value |-> 0]

\* Section::allocate on a multi-bit mask, after the load: the store of
\* load | set_bit, whatever the mask (bits) has become since the load
allocate_store(W, bits, load) ==
    LET set_bit == lowest_zero(W, load)
    IN  [res |-> "Ok", bits |-> load \cup set_bit,
         value |-> trailing_zeros(W, set_bit)]

\* Section::deallocate on a multi-bit mask, after the load: the store of
\* load & !set_bit, whatever the mask (bits) has become since the load
deallocate_store(W, bits, load, set_bit) == load \cap Not(W, set_bit)

\* Section::allocate by a single caller: res is "Ok" with the slot index in
\* value, or "Err"
Section_allocate(section) ==
    LET W == total_slots(section)
        load == section.allocated.bits
    IN  IF section.allocated.variant = "Bool"
        THEN LET cas == compare_exchange(load, {}, {0})
             IN  [res |-> cas.res, value |-> 0,
                  section |-> [section EXCEPT !.allocated.bits = cas.bits]]
        ELSE IF Not(W, load) = {}
             THEN [res |-> "Err", value |-> 0, section |-> section]
             ELSE LET st == allocate_store(W, load, load)
                  IN  [res |-> st.res, value |-> st.value,
                       section |-> [section EXCEPT !.allocated.bits = st.bits]]

\* shl_one shifting one place too far: 1 << (index + 1)
shl_one_next(W, index) == {(index + 1) % W}

\* 1 << index on W bits, the shift amount taken modulo W when unchecked
shl_one(W, index) == {index % W}

\* Section::deallocate by a single caller: res is "Ok", "Err", or "panic" (a shift overflow in a
\* build with overflow checks)
Section_deallocate(section, index, overflow_checks) ==
    LET W == total_slots(section)
        load == section.allocated.bits
    IN  IF section.allocated.variant = "Bool"
        THEN LET cas == compare_exchange(load, {0}, {})
             IN  [res |-> cas.res,
                  section |-> [section EXCEPT !.allocated.bits = cas.bits]]
        ELSE IF index >= W /\ overflow_checks
             THEN [res |-> "panic", section |-> section]
             ELSE LET set_bit == shl_one(W, index)
                  IN  IF load \cap set_bit = {}
                      THEN [res |-> "Err", section |-> section]
                      ELSE [res |-> "Ok",
                            section |-> [section EXCEPT !.allocated.bits =
                                deallocate_store(W, load, load, set_bit)]]

----------------------------------------------------------------------------
(* lib.rs: SlabAllocator *)

\* Layout::pad_to_align().size(): size rounded up to a multiple of align
pad_to_align(layout) ==
    ((layout.size + layout.align - 1) \div layout.align) * layout.align

RECURSIVE new_loop_absolute(_, _, _, _, _, _)
\* new_loop with the end of the section, start + size, compared to the bytes
\* left
new_loop_absolute(blks, index, start, len, views, overflow_checks) ==
    IF index > Len(blks)
    THEN [res |-> "Ok", buffer |-> views]
    ELSE LET product == total_slots(blks[index]) * blks[index].size
             size == product % UsizeMod
         IN  IF product >= UsizeMod /\ overflow_checks
             THEN [res |-> "panic", buffer |-> <<>>]
             ELSE IF start + size > len
             THEN [res |-> "BufTooSmall", buffer |-> <<>>]
             ELSE new_loop_absolute(blks, index + 1, start + size, len - size,
                           Append(views, [start |-> start, len |-> size]),
                           overflow_checks)

\* new, lines 43-57: the loop over the sections from `index` on, with `len`
\* bytes of the buffer left, starting at `start`
RECURSIVE new_loop(_, _, _, _, _, _)
new_loop(blks, index, start, len, views, overflow_checks) ==
    IF index > Len(blks)
    THEN [res |-> "Ok", buffer |-> views]
    ELSE LET product == total_slots(blks[index]) * blks[index].size
             size == product % UsizeMod
         IN  IF product >= UsizeMod /\ overflow_checks
             THEN [res |-> "panic", buffer |-> <<>>]
             ELSE IF size > len
             THEN [res |-> "BufTooSmall", buffer |-> <<>>]
             ELSE new_loop(blks, index + 1, start + size, len - size,
                           Append(views, [start |-> start, len |-> size]),
                           overflow_checks)

\* SlabAllocator::new(blocks, buf)
new(blks, len, overflow_checks) ==
    new_loop(blks, 1, 0, len, <<>>, overflow_checks)

\* find_section as a best-fit search: the tightest section that fits
find_section_best(blks, size) ==
    LET fit == {i \in DOMAIN blks :
                    blks[i].size >= size /\ free_slots(blks[i]) > 0}
    IN  IF fit = {} THEN 0
        ELSE Min({i \in fit : \A j \in fit : blks[i].size <= blks[j].size})

\* find_section with the size test off by one: section.size > size
find_section_strict(blks, size) ==
    LET fit == {i \in DOMAIN blks :
                    blks[i].size > size /\ free_slots(blks[i]) > 0}
    IN  IF fit = {} THEN 0 ELSE Min(fit)

\* find_section with the size test turned round: section.size <= size
find_section_under(blks, size) ==
    LET fit == {i \in DOMAIN blks :
                    blks[i].size <= size /\ free_slots(blks[i]) > 0}
    IN  IF fit = {} THEN 0 ELSE Min(fit)

\* allocate, lines 77-82: the first section that fits and has a free slot,
\* 0 when there is none
find_section(blks, size) ==
    LET fit == {i \in DOMAIN blks :
                    blks[i].size >= size /\ free_slots(blks[i]) > 0}
    IN  IF fit = {} THEN 0 ELSE Min(fit)

\* allocate, line 87: buffer[index][offset..(offset + section.size)]
slice(view, offset, size) ==
    LET end == offset + size
    IN  IF offset > end % UsizeMod \/ end % UsizeMod > view.len
        THEN [res |-> "panic", start |-> 0, len |-> 0]
        ELSE [res |-> "Ok", start |-> view.start + offset,
              len |-> (end % UsizeMod) - offset]

NoRange == [index |-> 0, slot |-> 0, start |-> 0, len |-> 0]

\* SlabAllocator::allocate(layout)
allocate(blks, bufs, layout) ==
    LET size == pad_to_align(layout)
        index == find_section(blks, size)
    IN  IF index = 0
        THEN [res |-> "AllocError", blocks |-> blks, range |-> NoRange]
        ELSE LET claim == Section_allocate(blks[index])
                 offset == claim.value
                 out == slice(bufs[index], offset, blks[index].size)
                 marked == [blks EXCEPT ![index] = claim.section]
             IN  IF claim.res = "Err"
                 THEN [res |-> "AllocError", blocks |-> blks, range |-> NoRange]
                 ELSE IF out.res = "panic"
                 THEN [res |-> "panic", blocks |-> marked,
                       range |-> [NoRange EXCEPT !.index = index, !.slot = offset]]
                 ELSE [res |-> "Ok", blocks |-> marked,
                       range |-> [index |-> index, slot |-> offset,
                                  start |-> out.start, len |-> out.len]]

\* deallocate, lines 91-96: the first view that contains ptr, 0 when none does
find_buffer(bufs, ptr) ==
    LET hit == {i \in DOMAIN bufs :
                    bufs[i].start <= ptr /\ ptr < bufs[i].start + bufs[i].len}
    IN  IF hit = {} THEN 0 ELSE Min(hit)

\* release_index as a slot index: the byte offset divided by the slot size
release_index_slot(section, view, ptr) == (ptr - view.start) \div section.size

\* deallocate, line 99: the index handed to Section::deallocate (the cast to
\* u32 keeps every offset of a usize of UsizeBits bits)
release_index(section, view, ptr) == ptr - view.start

\* SlabAllocator::deallocate(ptr, _layout)
deallocate(blks, bufs, ptr, overflow_checks) ==
    LET index == find_buffer(bufs, ptr)
    IN  IF index = 0
        THEN [res |-> "panic", blocks |-> blks, index |-> 0, slot |-> 0]
        ELSE LET offset == release_index(blks[index], bufs[index], ptr)
                 freed == Section_deallocate(blks[index], offset, overflow_checks)
             IN  IF freed.res = "Ok"
                 THEN [res |-> "Ok",
                       blocks |-> [blks EXCEPT ![index] = freed.section],
                       index |-> index, slot |-> offset]
                 ELSE [res |-> "panic", blocks |-> blks,
                       index |-> index, slot |-> offset]

----------------------------------------------------------------------------
(* The inputs *)

\* a slot size whose product with 8 slots does not fit usize
HugeSize == UsizeMod \div 8

\* the arrays of sections handed to new, every bitmask zero
Configs ==
    {<<Section_new(s, v, {})>> : s \in {0, 1, 2}, v \in Variants}
    \cup {<<Section_new(a, v, {}), Section_new(b, w, {})>> :
            a \in {10, 20}, b \in {10, 20},
            v \in {"Bool", "U8"}, w \in {"Bool"}}
    \cup {<<Section_new(10, "Bool", {}), Section_new(20, "U8", {})>>}
    \cup {<<Section_new(10, "Bool", {}), Section_new(HugeSize, "U8", {})>>}
    \cup {<<Section_new(s, "U8", {})>> : s \in {HugeSize, HugeSize + 1}}

RECURSIVE required(_, _)
\* the sum of slot_size * total_slots over the sections from index on
required(blks, index) ==
    IF index > Len(blks) THEN 0
    ELSE total_slots(blks[index]) * blks[index].size + required(blks, index + 1)

\* buffer lengths around the required total, the bytes of the first section
\* alone, and the total with those bytes to spare (a slice is shorter than
\* half of usize)
BufLens(blks) ==
    {n \in {required(blks, 1) - 1, required(blks, 1), required(blks, 1) + 1,
            required(blks, 1) % UsizeMod,
            required(blks, 1) - required(blks, 2),
            2 * required(blks, 1) - required(blks, 2)} :
        0 <= n /\ n < UsizeMod \div 2}

Layouts == {[size |-> s, align |-> a] : s \in {0, 1, 15, 21}, a \in {1, 2}}

\* the release indices tried on a mask of W bits
ProbeIndices(W) == {i \in 0 .. W : i < MaxProbe \/ i + 1 >= W}

\* the addresses tried by deallocate: in every view the probe indices as byte
\* offsets and as slot offsets, the address one past the views, and the
\* address the last allocate returned
Pointers ==
    UNION {{buffer[i].start + o : o \in ProbeIndices(total_slots(blocks[i]))}
           \cup {buffer[i].start + o * blocks[i].size :
                    o \in ProbeIndices(total_slots(blocks[i]))}
           : i \in DOMAIN buffer}
    \cup {buffer[i].start + buffer[i].len : i \in DOMAIN buffer}
    \cup (IF ret.op = "allocate" /\ ret.res = "Ok" THEN {ret.start} ELSE {})

NoRet ==
    [op |-> "none", res |-> "none", size |-> 0, align |-> 0, ptr |-> 0,
     index |-> 0, slot |-> 0, start |-> 0, len |-> 0, undo |-> FALSE]

----------------------------------------------------------------------------
(* The program: either an allocator (new, then any sequence of allocate    *)
(* and deallocate, as in lib.rs and the example), or one section on its    *)
(* own (any sequence of Section::allocate and Section::deallocate, as in   *)
(* the tests of section.rs).  The build (overflow checks on or off) is an  *)
(* input of the calls it matters to.                                       *)

\* the sections the tests of section.rs create: size 0, bitmask 0 or MAX
TestSections ==
    {Section_new(0, v, {}) : v \in Variants}
    \cup {Section_new(0, v, 0 .. (total_slots(Section_new(0, v, {})) - 1)) :
            v \in Variants}

InitAllocator ==
    /\ blocks \in Configs
    /\ buf \in BufLens(blocks)
    /\ state = "start"
    /\ streak = -1

InitSection ==
    /\ \E section \in TestSections :
          /\ blocks = <<section>>
          /\ streak = (IF section.allocated.bits = {} THEN 0 ELSE -1)
    /\ buf = 0
    /\ state = "section"

Init ==
    /\ (InitAllocator \/ InitSection)
    /\ buffer = <<>>
    /\ ret = NoRet
    /\ prev = blocks
    /\ live = {}
    /\ threads = <<>>

\* SlabAllocator::new(blocks, &mut buf[..]); ret.size keeps the length of buf,
\* which new consumes
New(overflow_checks) ==
    /\ state = "start"
    /\ LET r == new(blocks, buf, overflow_checks)
       IN  /\ buffer' = r.buffer
           /\ state' = (CASE r.res = "Ok" -> "ready"
                          [] r.res = "BufTooSmall" -> "err"
                          [] r.res = "panic" -> "panic")
           /\ ret' = [NoRet EXCEPT !.op = "new", !.res = r.res, !.size = buf]
    /\ buf' = 0
    /\ prev' = blocks
    /\ UNCHANGED <<blocks, streak, live, threads>>

\* allocator.allocate(layout)
Allocate(layout) ==
    /\ state = "ready"
    /\ LET r == allocate(blocks, buffer, layout)
       IN  /\ blocks' = r.blocks
           /\ state' = (IF r.res = "panic" THEN "panic" ELSE "ready")
           /\ ret' = [NoRet EXCEPT !.op = "allocate", !.res = r.res,
                         !.size = layout.size, !.align = layout.align,
                         !.index = r.range.index, !.slot = r.range.slot,
                         !.start = r.range.start, !.len = r.range.len]
    /\ prev' = blocks
    /\ UNCHANGED <<buffer, buf, streak, live, threads>>

\* allocator.deallocate(ptr, layout)
Deallocate(ptr, overflow_checks) ==
    /\ state = "ready"
    /\ LET r == deallocate(blocks, buffer, ptr, overflow_checks)
       IN  /\ blocks' = r.blocks
           /\ state' = (IF r.res = "panic" THEN "panic" ELSE "ready")
           /\ ret' = [NoRet EXCEPT !.op = "deallocate", !.res = r.res,
                         !.ptr = ptr, !.index = r.index, !.slot = r.slot,
                         !.undo = (ret.op = "allocate" /\ ret.res = "Ok"
                                   /\ ptr = ret.start)]
    /\ prev' = blocks
    /\ UNCHANGED <<buffer, buf, streak, live, threads>>

\* section.allocate()
Claim ==
    /\ state = "section"
    /\ LET r == Section_allocate(blocks[1])
       IN  /\ blocks' = <<r.section>>
           /\ ret' = [NoRet EXCEPT !.op = "claim", !.res = r.res, !.slot = r.value]
    /\ prev' = blocks
    /\ streak' = (IF streak < 0 \/ streak > total_slots(blocks[1])
                  THEN streak ELSE streak + 1)
    /\ UNCHANGED <<buffer, buf, state, live, threads>>

\* section.deallocate(index)
Release(index, overflow_checks) ==
    /\ state = "section"
    /\ LET r == Section_deallocate(blocks[1], index, overflow_checks)
       IN  /\ blocks' = <<r.section>>
           /\ state' = (IF r.res = "panic" THEN "panic" ELSE "section")
           /\ ret' = [NoRet EXCEPT !.op = "release", !.res = r.res, !.slot = index,
                         !.undo = (ret.op = "claim" /\ ret.res = "Ok"
                                   /\ index = ret.slot)]
    /\ prev' = blocks
    /\ streak' = -1
    /\ UNCHANGED <<buffer, buf, live, threads>>

\* the indices tried by section.deallocate: the probe indices and the index
\* the last section.allocate returned
ReleaseInputs ==
    ProbeIndices(total_slots(blocks[1]))
    \cup (IF ret.op = "claim" /\ ret.res = "Ok" THEN {ret.slot} ELSE {})

Next ==
    \/ \E overflow_checks \in BOOLEAN : New(overflow_checks)
    \/ \E layout \in Layouts : Allocate(layout)
    \/ \E ptr \in Pointers, overflow_checks \in BOOLEAN :
          Deallocate(ptr, overflow_checks)
    \/ Claim
    \/ \E index \in ReleaseInputs, overflow_checks \in BOOLEAN :
          Release(index, overflow_checks)

Spec == Init /\ [][Next]_vars

----------------------------------------------------------------------------
(* Concurrent callers.  A section is shared by reference and its bitmask   *)
(* is an atomic: every atomic operation of the code (load, store,          *)
(* compare_exchange) is one step, and the steps of the callers interleave. *)
(* The callers either call Section::allocate and Section::deallocate on    *)
(* one shared section (state "sections"), or allocate and deallocate on    *)
(* one shared allocator (state "allocator").  A caller releases only what  *)
(* it holds.                                                               *)

Threads == 1 .. NumThreads

\* a caller outside any call: op, res and slot are those of its last call,
\* held the slots it was given and has not released, starved whether at
\* some instant of its allocate call no section that fits had a free slot,
\* calls the number of calls it has made
Idle ==
    [pc |-> "idle", op |-> "none", size |-> 0, scan |-> 0, index |-> 0,
     slot |-> 0, load |-> {}, res |-> "none", held |-> {}, starved |-> FALSE,
     calls |-> 0]

RECURSIVE calls_made(_, _)
\* the calls the callers 1 .. n of ths have made
calls_made(ths, n) ==
    IF n = 0 THEN 0 ELSE ths[n].calls + calls_made(ths, n - 1)

\* the caller th as it enters a call
Enter(th) == [Idle EXCEPT !.held = th.held, !.calls = th.calls + 1]

\* the arrays of sections of a shared allocator
SharedConfigs ==
    {<<Section_new(10, "Bool", {}), Section_new(20, "Bool", {})>>,
     <<Section_new(10, "Bool", {}), Section_new(10, "U8", {})>>}

SharedLayouts == {[size |-> s, align |-> 1] : s \in {1, 15}}

InitConcurrent ==
    /\ \/ /\ state = "sections"
          /\ \E v \in Variants : blocks = <<Section_new(0, v, {})>>
          /\ buffer = <<>>
       \/ /\ state = "allocator"
          /\ blocks \in SharedConfigs
          /\ buffer = new(blocks, required(blocks, 1), TRUE).buffer
    /\ threads = [t \in Threads |-> Idle]
    /\ buf = 0
    /\ ret = NoRet
    /\ prev = blocks
    /\ streak = -1
    /\ live = {}

\* no section of blks both fits size and has a free slot
starving(blks, size) ==
    \A k \in DOMAIN blks :
        ~(blks[k].size >= size
          /\ blks[k].allocated.bits # 0 .. (total_slots(blks[k]) - 1))

\* the callers inside allocate take note of the sections as they are now
Observe(ths, blks) ==
    [t \in DOMAIN ths |->
        IF ths[t].op = "allocate" /\ ths[t].pc # "idle"
        THEN [ths[t] EXCEPT !.starved = @ \/ starving(blks, ths[t].size)]
        ELSE ths[t]]

\* the caller th returns from Section::allocate with res and value; inside
\* allocate (lines 85-87) an Err becomes AllocError and an Ok the slice
claim_return(th, res, value) ==
    LET out == IF th.op # "allocate" THEN res
               ELSE IF res = "Err" THEN "AllocError"
               ELSE slice(buffer[th.index], value, blocks[th.index].size).res
    IN  [th EXCEPT !.pc = "idle", !.res = out, !.slot = value, !.load = {},
                   !.held = IF out = "Ok"
                            THEN @ \cup {[index |-> th.index, slot |-> value]}
                            ELSE @]

\* the caller th returns from Section::deallocate with res; inside
\* deallocate (lines 102-104) an Err is unwrapped by expect
release_return(th, res) ==
    [th EXCEPT !.pc = "idle", !.load = {},
               !.res = IF th.op = "deallocate" /\ res = "Err" THEN "panic"
                       ELSE res]

\* a caller that panics leaves the others to finish their calls
after(th) == IF th.res = "panic" THEN "panic" ELSE state

\* a caller enters section.allocate()
CallClaim(t) ==
    /\ state = "sections"
    /\ threads[t].pc = "idle"
    /\ calls_made(threads, NumThreads) < MaxCalls
    /\ threads' = [threads EXCEPT ![t] =
            [Enter(threads[t]) EXCEPT !.pc = "claim", !.op = "claim",
                                      !.index = 1]]
    /\ UNCHANGED <<blocks, buffer, buf, state, ret, prev, streak, live>>

\* a caller enters section.deallocate(index) with a slot it holds
CallRelease(t, h) ==
    /\ state = "sections"
    /\ threads[t].pc = "idle"
    /\ calls_made(threads, NumThreads) < MaxCalls
    /\ h \in threads[t].held
    /\ threads' = [threads EXCEPT ![t] =
            [Enter(threads[t]) EXCEPT !.pc = "release", !.op = "release",
                                      !.index = h.index, !.slot = h.slot,
                                      !.held = threads[t].held \ {h}]]
    /\ UNCHANGED <<blocks, buffer, buf, state, ret, prev, streak, live>>

\* a caller enters allocator.allocate(layout)
CallAllocate(t, layout) ==
    /\ state = "allocator"
    /\ threads[t].pc = "idle"
    /\ calls_made(threads, NumThreads) < MaxCalls
    /\ threads' = [threads EXCEPT ![t] =
            [Enter(threads[t]) EXCEPT
                !.pc = "find", !.op = "allocate", !.scan = 1,
                !.size = pad_to_align(layout),
                !.starved = starving(blocks, pad_to_align(layout))]]
    /\ UNCHANGED <<blocks, buffer, buf, state, ret, prev, streak, live>>

\* a caller enters allocator.deallocate(ptr, layout) with an address it
\* holds: lines 91-101 find the view and the offset without touching a mask
CallDeallocate(t, h) ==
    /\ state = "allocator"
    /\ threads[t].pc = "idle"
    /\ calls_made(threads, NumThreads) < MaxCalls
    /\ h \in threads[t].held
    /\ LET ptr == buffer[h.index].start + h.slot
           index == find_buffer(buffer, ptr)
       IN  threads' = [threads EXCEPT ![t] =
               [Enter(threads[t]) EXCEPT
                   !.pc = "release", !.op = "deallocate", !.index = index,
                   !.slot = release_index(blocks[index], buffer[index], ptr),
                   !.held = threads[t].held \ {h}]]
    /\ UNCHANGED <<blocks, buffer, buf, state, ret, prev, streak, live>>

\* allocate, lines 77-82: the closure of find on the section at scan, which
\* loads the mask of a section that is large enough
Find(t) ==
    /\ threads[t].pc = "find"
    /\ LET th == threads[t]
           section == blocks[th.scan]
       IN  threads' = [threads EXCEPT ![t] =
               IF section.size >= th.size /\ free_slots(section) > 0
               THEN [th EXCEPT !.pc = "claim", !.index = th.scan]
               ELSE IF th.scan = Len(blocks)
               THEN [th EXCEPT !.pc = "idle", !.res = "AllocError"]
               ELSE [th EXCEPT !.scan = th.scan + 1]]
    /\ UNCHANGED <<blocks, buffer, buf, state, ret, prev, streak, live>>

\* Section::allocate, lines 80-85: compare_exchange(false, true) and return
ClaimBool(t) ==
    /\ threads[t].pc = "claim"
    /\ blocks[threads[t].index].allocated.variant = "Bool"
    /\ LET th == threads[t]
           cas == compare_exchange(blocks[th.index].allocated.bits, {}, {0})
           done == claim_return(th, cas.res, 0)
       IN  /\ blocks' = [blocks EXCEPT ![th.index].allocated.bits = cas.bits]
           /\ threads' = Observe([threads EXCEPT ![t] = done], blocks')
           /\ state' = after(done)
    /\ UNCHANGED <<buffer, buf, ret, prev, streak, live>>

\* Section::allocate, lines 87-90 (and the same for 16, 32, 64 bits): the
\* load, and the return of Err when no bit of it is zero
ClaimLoad(t) ==
    /\ threads[t].pc = "claim"
    /\ blocks[threads[t].index].allocated.variant # "Bool"
    /\ LET th == threads[t]
           section == blocks[th.index]
           load == section.allocated.bits
       IN  threads' = [threads EXCEPT ![t] =
               IF Not(total_slots(section), load) = {}
               THEN claim_return(th, "Err", 0)
               ELSE [th EXCEPT !.pc = "store", !.load = load]]
    /\ UNCHANGED <<blocks, buffer, buf, state, ret, prev, streak, live>>

\* Section::allocate, lines 91-94: the store of load | set_bit and the return
ClaimStore(t) ==
    /\ threads[t].pc = "store"
    /\ LET th == threads[t]
           section == blocks[th.index]
           st == allocate_store(total_slots(section), section.allocated.bits,
                                th.load)
           done == claim_return(th, st.res, st.value)
       IN  /\ blocks' = [blocks EXCEPT ![th.index].allocated.bits = st.bits]
           /\ threads' = Observe([threads EXCEPT ![t] = done], blocks')
           /\ state' = after(done)
    /\ UNCHANGED <<buffer, buf, ret, prev, streak, live>>

\* Section::deallocate, lines 131-136: compare_exchange(true, false) and return
ReleaseBool(t) ==
    /\ threads[t].pc = "release"
    /\ blocks[threads[t].index].allocated.variant = "Bool"
    /\ LET th == threads[t]
           cas == compare_exchange(blocks[th.index].allocated.bits, {0}, {})
           done == release_return(th, cas.res)
       IN  /\ blocks' = [blocks EXCEPT ![th.index].allocated.bits = cas.bits]
           /\ threads' = Observe([threads EXCEPT ![t] = done], blocks')
           /\ state' = after(done)
    /\ UNCHANGED <<buffer, buf, ret, prev, streak, live>>

\* Section::deallocate, lines 138-142 (and the same for 16, 32, 64 bits):
\* the load, and the return of Err when the bit of index is zero in it
ReleaseLoad(t) ==
    /\ threads[t].pc = "release"
    /\ blocks[threads[t].index].allocated.variant # "Bool"
    /\ LET th == threads[t]
           section == blocks[th.index]
           load == section.allocated.bits
           done == release_return(th, "Err")
       IN  /\ threads' = [threads EXCEPT ![t] =
                  IF load \cap shl_one(total_slots(section), th.slot) = {}
                  THEN done
                  ELSE [th EXCEPT !.pc = "clear", !.load = load]]
           /\ state' = after(threads'[t])
    /\ UNCHANGED <<blocks, buffer, buf, ret, prev, streak, live>>

\* Section::deallocate, lines 143-145: the store of load & !set_bit and the
\* return
ReleaseStore(t) ==
    /\ threads[t].pc = "clear"
    /\ LET th == threads[t]
           section == blocks[th.index]
           W == total_slots(section)
       IN  /\ blocks' = [blocks EXCEPT ![th.index].allocated.bits =
                  deallocate_store(W, section.allocated.bits, th.load,
                                   shl_one(W, th.slot))]
           /\ threads' = Observe([threads EXCEPT ![t] = release_return(th, "Ok")],
                                 blocks')
    /\ UNCHANGED <<buffer, buf, state, ret, prev, streak, live>>

ConcNext ==
    \/ \E t \in Threads : CallClaim(t)
    \/ \E t \in Threads : \E h \in threads[t].held : CallRelease(t, h)
    \/ \E t \in Threads : \E layout \in SharedLayouts : CallAllocate(t, layout)
    \/ \E t \in Threads : \E h \in threads[t].held : CallDeallocate(t, h)
    \/ \E t \in Threads : Find(t)
    \/ \E t \in Threads : ClaimBool(t)
    \/ \E t \in Threads : ClaimLoad(t)
    \/ \E t \in Threads : ClaimStore(t)
    \/ \E t \in Threads : ReleaseBool(t)
    \/ \E t \in Threads : ReleaseLoad(t)
    \/ \E t \in Threads : ReleaseStore(t)

ConcSpec == InitConcurrent /\ [][ConcNext]_vars

----------------------------------------------------------------------------
(* A single caller that uses the allocator as a container does (Box and    *)
(* Vec in the test boxes and in the example): it gives to deallocate only  *)
(* addresses that allocate returned and that it has not given back.  live  *)
(* is what it holds.                                                       *)

\* the arrays of sections of Configs, and the section of 4 byte slots with a
\* single flag
ClientConfigs == Configs \cup {<<Section_new(4, "Bool", {})>>}

InitClient ==
    /\ blocks \in ClientConfigs
    /\ buf \in BufLens(blocks)
    /\ state = "start"
    /\ buffer = <<>>
    /\ ret = NoRet
    /\ prev = blocks
    /\ streak = -1
    /\ live = {}
    /\ threads = <<>>

RECURSIVE slots_total(_, _)
\* the slots of the sections of blks from index on
slots_total(blks, index) ==
    IF index > Len(blks) THEN 0
    ELSE total_slots(blks[index]) + slots_total(blks, index + 1)

\* SlabAllocator::new(blocks, &mut buf[..]); streak counts the allocate calls
\* made since, as long as they all have the same layout and no deallocate
\* was made
ClientNew(overflow_checks) ==
    /\ state = "start"
    /\ LET r == new(blocks, buf, overflow_checks)
       IN  /\ buffer' = r.buffer
           /\ state' = (CASE r.res = "Ok" -> "ready"
                          [] r.res = "BufTooSmall" -> "err"
                          [] r.res = "panic" -> "panic")
           /\ ret' = [NoRet EXCEPT !.op = "new", !.res = r.res, !.size = buf]
           /\ streak' = (IF r.res = "Ok" THEN 0 ELSE -1)
    /\ buf' = 0
    /\ prev' = blocks
    /\ UNCHANGED <<blocks, live, threads>>

\* allocator.allocate(layout); the caller keeps the range it is given
ClientAllocate(layout) ==
    /\ state = "ready"
    /\ LET r == allocate(blocks, buffer, layout)
       IN  /\ blocks' = r.blocks
           /\ state' = (IF r.res = "panic" THEN "panic" ELSE "ready")
           /\ ret' = [NoRet EXCEPT !.op = "allocate", !.res = r.res,
                         !.size = layout.size, !.align = layout.align,
                         !.index = r.range.index, !.slot = r.range.slot,
                         !.start = r.range.start, !.len = r.range.len]
           /\ live' = (IF r.res = "Ok" THEN live \cup {r.range} ELSE live)
    /\ prev' = blocks
    /\ streak' = (IF streak < 0 THEN -1
                  ELSE IF ret.op = "allocate"
                          /\ (ret.size # layout.size \/ ret.align # layout.align)
                  THEN -1
                  ELSE IF streak > slots_total(blocks, 1) THEN streak
                  ELSE streak + 1)
    /\ UNCHANGED <<buffer, buf, threads>>

\* allocator.deallocate(ptr, layout) with the address of a range the caller
\* holds
ClientDeallocate(held, overflow_checks) ==
    /\ state = "ready"
    /\ held \in live
    /\ LET r == deallocate(blocks, buffer, held.start, overflow_checks)
       IN  /\ blocks' = r.blocks
           /\ state' = (IF r.res = "panic" THEN "panic" ELSE "ready")
           /\ ret' = [NoRet EXCEPT !.op = "deallocate", !.res = r.res,
                         !.ptr = held.start, !.index = r.index, !.slot = r.slot,
                         !.undo = (ret.op = "allocate" /\ ret.res = "Ok"
                                   /\ held.start = ret.start)]
    /\ live' = live \ {held}
    /\ prev' = blocks
    /\ streak' = -1
    /\ UNCHANGED <<buffer, buf, threads>>

\* the ranges the caller gives back: those of the probe indices and the one
\* the last allocate returned
ClientPointers ==
    {held \in live :
        \/ held.slot \in ProbeIndices(total_slots(blocks[held.index]))
        \/ ret.op = "allocate" /\ ret.res = "Ok" /\ held.start = ret.start}

ClientNext ==
    \/ \E overflow_checks \in BOOLEAN : ClientNew(overflow_checks)
    \/ \E layout \in Layouts : ClientAllocate(layout)
    \/ \E held \in ClientPointers, overflow_checks \in BOOLEAN :
          ClientDeallocate(held, overflow_checks)

ClientSpec == InitClient /\ [][ClientNext]_vars

----------------------------------------------------------------------------
(* The vocabulary of the properties, stated without the operators above *)

\* the number of slots of a bitmask of the given kind
Width(variant) ==
    CASE variant = "Bool" -> 1
      [] variant = "U8" -> 8
      [] variant = "U16" -> 16
      [] variant = "U32" -> 32
      [] variant = "U64" -> 64

Slots(section) == 0 .. (Width(section.allocated.variant) - 1)

Bits(section) == section.allocated.bits

\* size rounded up to a multiple of align
Padded(size, align) == CHOOSE p \in size .. (size + align - 1) : p % align = 0

\* the section can serve a request of p bytes
Fits(section, p) == section.size >= p /\ Bits(section) # Slots(section)

\* the bytes the sections need in all
RECURSIVE Total(_)
Total(blks) ==
    IF blks = <<>> THEN 0
    ELSE Head(blks).size * Width(Head(blks).allocated.variant) + Total(Tail(blks))

\* the last call was an allocate that returned a range
Served == ret.op = "allocate" /\ ret.res = "Ok"

\* the last call was an allocate that returned AllocError
NoFit == ret.op = "allocate" /\ ret.res = "AllocError"

----------------------------------------------------------------------------
C2_SlotRange ==
    Served =>
        /\ ret.start = buffer[ret.index].start + ret.slot * blocks[ret.index].size
        /\ ret.len = blocks[ret.index].size

(* C3: new fails with BufTooSmall when the buffer is shorter than the      *)
(* total of slot size times slots over all sections, and succeeds when the *)
(* buffer is exactly that long or longer.                                  *)
C3_ExactFit ==
    ret.op = "new" =>
        /\ ret.size < Total(blocks) => ret.res = "BufTooSmall"
        /\ ret.size >= Total(blocks) => ret.res = "Ok"

\* C3 restricted to sections whose bytes fit usize
C3_WithinUsize ==
    (ret.op = "new" /\ \A k \in DOMAIN blocks : Total(<<blocks[k]>>) < UsizeMod) =>
        /\ ret.size < Total(blocks) => ret.res = "BufTooSmall"
        /\ ret.size >= Total(blocks) => ret.res = "Ok"

(* C4: after a successful construction the views lie back to back from     *)
(* offset 0 in section order, view k is slot size times slots bytes long,  *)
(* no two views overlap, and no call changes them.                         *)
ViewsLaidOut ==
    state = "ready" =>
        /\ Len(buffer) = Len(blocks)
        /\ \A k \in DOMAIN buffer :
              /\ buffer[k].len = Total(<<blocks[k]>>)
              /\ buffer[k].start = Total(SubSeq(blocks, 1, k - 1))
        /\ \A j, k \in DOMAIN buffer :
              j < k => buffer[j].start + buffer[j].len <= buffer[k].start

C4_Views ==
    [][ViewsLaidOut' /\ (state = "ready" => buffer' = buffer)]_vars

\* C4 restricted to sections whose bytes fit usize
C4_WithinUsize ==
    [][/\ (\A k \in DOMAIN blocks : Total(<<blocks[k]>>) < UsizeMod) => ViewsLaidOut'
       /\ state = "ready" => buffer' = buffer]_vars

(* C5: allocate returns AllocError exactly when no section has both a slot *)
(* size of at least the padded size and a free slot, and a failed allocate *)
(* leaves every bitmask as it was.                                         *)
C5_NoFit ==
    ret.op = "allocate" =>
        /\ ret.res = "AllocError" <=>
              ~\E k \in DOMAIN prev : Fits(prev[k], Padded(ret.size, ret.align))
        /\ ret.res = "AllocError" => blocks = prev

\* AllocError although a section is large enough: every such section is full
C5_Witness ==
    /\ NoFit
    /\ \E k \in DOMAIN prev : prev[k].size >= Padded(ret.size, ret.align)

----------------------------------------------------------------------------
\* view k contains the address
InView(k, ptr) ==
    buffer[k].start <= ptr /\ ptr < buffer[k].start + buffer[k].len

\* the slot of an address of view k: (address - view start) / slot size
SlotOf(k, ptr) == (ptr - buffer[k].start) \div blocks[k].size

\* the last call was a deallocate that returned
Freed == ret.op = "deallocate" /\ ret.res = "Ok"

(* C6: deallocate(address) releases, in the section whose view contains    *)
(* the address, the slot (address - view start) / slot size.  The code     *)
(* hands the byte offset itself to the section (lib.rs line 99-103).       *)
C6_SlotIndex ==
    Freed =>
        \E k \in DOMAIN buffer :
            /\ InView(k, ret.ptr)
            /\ SlotOf(k, ret.ptr) \in Bits(prev[k])
            /\ blocks = [prev EXCEPT
                            ![k].allocated.bits = @ \ {SlotOf(k, ret.ptr)}]

\* the address lies in no view, or its slot is not allocated
ReleaseViolation(blks, ptr) ==
    \/ \A k \in DOMAIN buffer : ~InView(k, ptr)
    \/ \E k \in DOMAIN buffer :
          InView(k, ptr) /\ SlotOf(k, ptr) \notin Bits(blks[k])

(* C7: deallocate of an address that lies in no view, or whose slot is not *)
(* allocated, panics: it does not return and changes no bitmask.           *)
C7_Fatal ==
    (ret.op = "deallocate" /\ ReleaseViolation(prev, ret.ptr)) =>
        /\ ret.res = "panic"
        /\ state = "panic"
        /\ blocks = prev

(* C8: on a section that starts with a zero bitmask, with no release, the  *)
(* first W calls of allocate succeed, the next one fails, and free_slots() *)
(* is then 0 (W = 1, 8, 16, 32, 64).                                       *)
C8_Capacity ==
    streak >= 1 =>
        LET W == Width(blocks[1].allocated.variant)
        IN  /\ ret.op = "claim"
            /\ streak <= W => (ret.res = "Ok" /\ Cardinality(Bits(blocks[1])) = streak)
            /\ streak = W + 1 => (ret.res = "Err" /\ free_slots(blocks[1]) = 0)

\* the 65th allocate of a 64 bit section fails
C8_Witness ==
    /\ blocks[1].allocated.variant = "U64"
    /\ streak = 65
    /\ ret.op = "claim" /\ ret.res = "Err"

(* C9: release(i), i in 0 .. W-1, of a slot whose bit is clear fails, and  *)
(* a failed release or a failed claim leaves the bitmask as it was.        *)
C9_ReleaseClear ==
    /\ (ret.op = "release" /\ ret.slot \in Slots(prev[1]) \ Bits(prev[1])) =>
            ret.res = "Err"
    /\ (ret.op \in {"claim", "release"} /\ ret.res = "Err") => blocks = prev

\* a slot of a full 64 bit section, released once, is released again
C9_Witness ==
    /\ blocks[1].allocated.variant = "U64"
    /\ ret.op = "release" /\ ret.res = "Err"
    /\ Bits(blocks[1]) = Slots(blocks[1]) \ {ret.slot}

(* C10: a claim followed by the release of the index it returned gives     *)
(* free_slots() its value of before the claim; an allocate from a section  *)
(* of slot size >= 1 followed by the deallocate of the address it returned *)
(* gives every bitmask its value of before the allocate.                   *)
C10_RoundTrip ==
    [][/\ (ret'.op = "release" /\ ret'.undo) =>
              (ret'.res = "Ok" /\ free_slots(blocks'[1]) = free_slots(prev[1]))
       /\ (ret'.op = "deallocate" /\ ret'.undo /\ blocks[ret.index].size >= 1) =>
              (ret'.res = "Ok" /\ blocks' = prev)]_vars

\* slot 1 of a 64 bit section of slot size 2, claimed again while the slots
\* above it are live, is given back
C10_Witness ==
    /\ Freed /\ ret.undo
    /\ blocks[ret.index].allocated.variant = "U64"
    /\ blocks[ret.index].size = 2
    /\ ret.slot = 1
    /\ Bits(blocks[ret.index]) = Slots(blocks[ret.index]) \ {1}

----------------------------------------------------------------------------
(* Concurrent callers: the vocabulary of C11, C12 and C19 *)

\* caller t returns in this step from the position pc of a call on a
\* section whose bitmask is a single flag (is not, for Bool = FALSE)
Returns(t, pc, Bool) ==
    /\ threads[t].pc = pc
    /\ threads'[t].pc = "idle"
    /\ (blocks[threads[t].index].allocated.variant = "Bool") = Bool

\* the slot caller t claimed in the call it returned from
Claimed(t) == [index |-> threads[t].index, slot |-> threads[t].slot]

\* no slot of a single flag section is held by two callers
SingleHolder ==
    \A t \in DOMAIN threads : \A u \in DOMAIN threads \ {t} :
        \A h \in threads[t].held \cap threads[u].held :
            blocks[h.index].allocated.variant # "Bool"

(* C11: on a section whose bitmask is a single flag, under every           *)
(* interleaving of concurrent callers, each claim and each release takes   *)
(* effect at one instant between its call and its return, as it would on   *)
(* a section with a single caller: a claim returns Ok exactly if the flag  *)
(* was clear at that instant, and sets it; a release returns Ok exactly if *)
(* the flag was set, and clears it; the flag changes at no other step; and *)
(* slot 0 is never held by two callers at once.                            *)
C11_Linearizable ==
    [][/\ \A t \in DOMAIN threads :
            LET k == threads[t].index
            IN  /\ Returns(t, "claim", TRUE) =>
                      /\ Bits(blocks'[k]) = {0}
                      /\ (threads'[t].res = "Ok") = (Bits(blocks[k]) = {})
                      /\ threads'[t].res = "Ok" =>
                            threads'[t].held = threads[t].held \cup {Claimed(t)'}
                      /\ threads'[t].res # "Ok" =>
                            threads'[t].held = threads[t].held
                /\ Returns(t, "release", TRUE) =>
                      /\ Bits(blocks'[k]) = {}
                      /\ (threads'[t].res = "Ok") = (Bits(blocks[k]) = {0})
       /\ \A k \in DOMAIN blocks :
            (blocks[k].allocated.variant = "Bool" /\ blocks'[k] # blocks[k]) =>
                \E t \in DOMAIN threads :
                    /\ threads[t].index = k
                    /\ Returns(t, "claim", TRUE) \/ Returns(t, "release", TRUE)
       /\ SingleHolder'
      ]_vars

\* two callers have each made one call, a claim on the free slot of a single
\* flag section: one of them holds slot 0, the other was refused
C11_Witness ==
    /\ state = "sections"
    /\ blocks[1].allocated.variant = "Bool"
    /\ \E t \in DOMAIN threads : \E u \in DOMAIN threads \ {t} :
          /\ threads[t].calls = 1 /\ threads[u].calls = 1
          /\ threads[t].pc = "idle" /\ threads[u].pc = "idle"
          /\ threads[t].res = "Ok" /\ threads[t].held = {[index |-> 1, slot |-> 0]}
          /\ threads[u].res = "Err" /\ threads[u].held = {}

(* C12: on a section whose bitmask has 8, 16, 32 or 64 bits, a claim that  *)
(* has loaded a mask with a zero bit returns Ok with the lowest zero bit   *)
(* of the mask it loaded, and stores that mask with the bit set, whatever  *)
(* the mask has become since the load: the store compares nothing.  So two *)
(* callers that load the same mask are both given the same slot.           *)
C12_BlindStore ==
    [][\A t \in DOMAIN threads :
          Returns(t, "store", FALSE) =>
              LET k == threads[t].index
                  lowest == Min(Slots(blocks[k]) \ threads[t].load)
              IN  /\ threads'[t].res = "Ok"
                  /\ threads'[t].slot = lowest
                  /\ Bits(blocks'[k]) = threads[t].load \cup {lowest}
                  /\ Claimed(t)' \in threads'[t].held
      ]_vars

\* two callers hold the same slot of a multi-bit section, and one bit of
\* its mask is set
C12_Witness ==
    /\ state = "sections"
    /\ blocks[1].allocated.variant # "Bool"
    /\ Cardinality(Bits(blocks[1])) = 1
    /\ \E t \in DOMAIN threads : \E u \in DOMAIN threads \ {t} :
          /\ threads[t].pc = "idle" /\ threads[u].pc = "idle"
          /\ threads[t].op = "claim" /\ threads[u].op = "claim"
          /\ threads[t].res = "Ok" /\ threads[u].res = "Ok"
          /\ threads[t].slot = threads[u].slot
          /\ threads[t].held \cap threads[u].held # {}

(* C19: under concurrent allocate calls on one shared allocator, an         *)
(* allocate returns AllocError only if at some instant between its call    *)
(* and its return no section that fits the padded size had a free slot.    *)
C19_NoFitOnlyWhenStarved ==
    \A t \in DOMAIN threads :
        (threads[t].pc = "idle" /\ threads[t].op = "allocate"
         /\ threads[t].res = "AllocError") => threads[t].starved

----------------------------------------------------------------------------
(* A single caller: the vocabulary of C13, C14 and C17 *)

\* the step is an allocate call on an allocator of one section, for a
\* request its slot size is large enough for
FittingCall ==
    /\ ret'.op = "allocate"
    /\ Len(blocks) = 1
    /\ blocks[1].size >= Padded(ret'.size, ret'.align)

\* with W the number of slots: the call fails when W ranges are live, and
\* else succeeds and gives the caller one more range
Reuses ==
    IF Cardinality(live) = Width(blocks[1].allocated.variant)
    THEN ret'.res = "AllocError" /\ live' = live
    ELSE ret'.res = "Ok" /\ Cardinality(live') = Cardinality(live) + 1

(* C13: a caller that gives back only what it holds, on an allocator of    *)
(* one section of W slots: an allocate that the slot size is large enough  *)
(* for fails exactly when W ranges are live, and succeeds otherwise, after *)
(* any number of calls.                                                    *)
C13_Reuse == [][FittingCall => Reuses]_vars

\* C13 for sections of at least one byte per slot whose bytes fit usize
C13_ReuseSized ==
    [][(FittingCall /\ blocks[1].size >= 1 /\ Total(blocks) < UsizeMod)
          => Reuses]_vars

\* slot 0 of a section of 64 slots was given back while the other 63 were
\* live, and has been given out again
C13_Witness ==
    /\ Served
    /\ Len(blocks) = 1
    /\ blocks[1].size = 2
    /\ blocks[1].allocated.variant = "U64"
    /\ ret.slot = 0
    /\ Cardinality(live) = 64

\* the single byte ranges at the addresses 0 .. n - 1 of section 1
FirstBytes(n) ==
    {[index |-> 1, slot |-> i, start |-> i, len |-> 1] : i \in 0 .. (n - 1)}

\* one section of 8 slots of 1 byte over a buffer of 8 bytes, and every
\* call since new was allocate(1, 1)
ScenarioB ==
    /\ Len(blocks) = 1
    /\ blocks[1].size = 1
    /\ blocks[1].allocated.variant = "U8"
    /\ buffer = <<[start |-> 0, len |-> 8]>>
    /\ ret.op = "allocate" /\ ret.size = 1 /\ ret.align = 1
    /\ streak >= 1

(* C14: one section of 8 slots of 1 byte over 8 bytes: the k-th of eight   *)
(* allocate(1, 1) calls returns the single byte at address k - 1, so that  *)
(* the caller then holds the k distinct bytes below k, and after eight     *)
(* calls the whole buffer; the ninth call returns AllocError.              *)
C14_ScenarioB ==
    ScenarioB =>
        /\ streak <= 8 =>
              /\ Served
              /\ ret.start = streak - 1 /\ ret.len = 1
              /\ live = FirstBytes(streak)
        /\ streak > 8 => NoFit /\ live = FirstBytes(8)

\* the ninth call has failed
C14_Witness == ScenarioB /\ streak = 9 /\ NoFit /\ Cardinality(live) = 8

\* the byte ranges a and b have no byte in common
Disjoint(a, b) ==
    \/ a.len = 0
    \/ b.len = 0
    \/ a.start + a.len <= b.start
    \/ b.start + b.len <= a.start

(* C17: with a single caller that gives back only what it holds, on        *)
(* sections of at least one byte per slot, any two ranges the caller holds *)
(* at the same time have no byte in common.                                *)
C17_LiveDisjoint ==
    \A a \in live : \A b \in live \ {a} :
        (blocks[a.index].size >= 1 /\ blocks[b.index].size >= 1)
            => Disjoint(a, b)

\* C17 for live ranges of different sections
C17_AcrossSections ==
    \A a \in live : \A b \in live :
        a.index # b.index => Disjoint(a, b)

----------------------------------------------------------------------------
\* sections of 20 and of 10 byte slots in this order, both with a free slot,
\* and a call of allocate(15, 1)
TwentyTen ==
    /\ ret.op = "allocate" /\ ret.size = 15 /\ ret.align = 1
    /\ Len(prev) = 2
    /\ prev[1].size = 20 /\ Bits(prev[1]) # Slots(prev[1])
    /\ prev[2].size = 10 /\ Bits(prev[2]) # Slots(prev[2])

(* C15 as stated: with sections of 20 and 10 byte slots in this order,     *)
(* both with a free slot, allocate(15, 1) returns AllocError.              *)
C15_NoFit == TwentyTen => NoFit

(* C15, amended: with sections of 20 and 10 byte slots in this order, both *)
(* with a free slot, allocate(15, 1) succeeds and is served from the first *)
(* section, the one of 20 byte slots.                                      *)
C15_FirstServes ==
    TwentyTen => Served /\ ret.index = 1 /\ ret.len = 20

C15_Witness ==
    /\ TwentyTen /\ Served
    /\ prev[1].allocated.variant = "U8" /\ Bits(prev[1]) # {}

\* the sections in the opposite order
Reverse(blks) == [i \in 1 .. Len(blks) |-> blks[Len(blks) + 1 - i]]

C18_LowestClear ==
    ret.op = "claim" =>
        IF Bits(prev[1]) = Slots(prev[1])
        THEN ret.res = "Err" /\ blocks = prev
        ELSE /\ ret.res = "Ok"
             /\ ret.slot = Min(Slots(prev[1]) \ Bits(prev[1]))
             /\ Bits(blocks[1]) = Bits(prev[1]) \cup {ret.slot}
             /\ blocks[1].size = prev[1].size

\* the claim filled the hole at index 1 of a mask of 64 bits whose other
\* bits were all set
C18_Witness ==
    /\ ret.op = "claim" /\ ret.res = "Ok"
    /\ blocks[1].allocated.variant = "U64"
    /\ ret.slot = 1
    /\ Bits(prev[1]) = Slots(prev[1]) \ {1}

(* C20: with a single caller, for every array of sections that new         *)
(* accepted, allocate returns AllocError or a range of exactly slot_size   *)
(* bytes inside the view of the section it chose; it never aborts.         *)
C20_NeverAborts ==
    ret.op = "allocate" =>
        \/ ret.res = "AllocError"
        \/ /\ ret.res = "Ok"
           /\ ret.len = blocks[ret.index].size
           /\ buffer[ret.index].start <= ret.start
           /\ ret.start + ret.len
                 <= buffer[ret.index].start + buffer[ret.index].len

\* C20 for sections of at least one byte per slot whose bytes fit usize
C20_SizedNeverAborts ==
    (ret.op = "allocate" /\ Total(blocks) < UsizeMod
     /\ \A k \in DOMAIN blocks : blocks[k].size >= 1)
        => ret.res \in {"AllocError", "Ok"}

====
